---- MODULE Spec2Model ----
(***************************************************************************)
(* Model of foolbox/models/pytorch.py: PyTorchModel, the adapter that      *)
(* wraps a torch.nn.Module behind the DifferentiableModel interface.       *)
(*                                                                         *)
(* Arrays and tensors are abstracted to a shape (a sequence of axis        *)
(* lengths), one content token (data), a dtype, the device they live on    *)
(* and the autograd mode of the Variable wrapping them.  The wrapped       *)
(* module and the user's preprocess_fn are external code: the model keeps  *)
(* a small family of behaviours for each.                                  *)
(***************************************************************************)
EXTENDS Integers, Sequences, FiniteSets, TLC

\* ---------------------------------------------------------------- bounds
MaxClasses == 2     \* num_classes ranges over 1..MaxClasses
MaxDim     == 2     \* the first axis of an input has length 1..MaxDim
MaxPix     == 1     \* content tokens are 0..MaxPix
MaxAccum   == 2     \* backward passes accumulated before the caller resets

\* ---------------------------------------------------------------- state
VARIABLES
    ctor_num_classes,   \* the num_classes argument given to __init__
    self_num_classes,   \* self._num_classes
    self_model,         \* self._model: the wrapped torch module (caller-owned)
    self_cuda,          \* self.cuda
    preprocess_fn,      \* the preprocess_fn argument captured by the lambda
    callerArr,          \* the caller's numpy array (the object passed in)
    last                \* observation of the most recent call on the adapter

vars == <<ctor_num_classes, self_num_classes, self_model, self_cuda,
          preprocess_fn, callerArr, last>>

\* ---------------------------------------------------------------- values
PixVals == 0..MaxPix

Shift(d) == (d + 1) % (MaxPix + 1)

\* Input shapes a caller may pass: 2, 3 or 4 axes, first axis 1..MaxDim.
InputShapes ==
    { <<n>> \o tail : n \in 1..MaxDim, tail \in {<<1>>, <<1, 1>>, <<1, 1, 1>>} }

\* A numpy array of the caller.
Arrays ==
    [shape : InputShapes, data : PixVals, dtype : {"float32", "object"},
     device : {"cpu"}, mode : {"ndarray"}]

NoArr == [shape |-> <<>>, data |-> 0, dtype |-> "none", device |-> "none",
          mode |-> "none"]

\* What is compared when two arrays are called equal: shape, values, dtype.
Content(a) == [shape |-> a.shape, data |-> a.data, dtype |-> a.dtype]

Ndim(a) == Len(a.shape)

\* Behaviours of the wrapped module.
\*   linear : flattens its input, returns scores (n, num_classes)
\*   conv   : needs a 4-axis input, returns scores (n, num_classes)
\*   wide   : returns one column too many
\*   flat   : returns a 1-axis vector of scores
\*   raises : its forward raises
ModelKinds == {"linear", "conv", "wide", "flat", "raises"}

Models == [kind : ModelKinds, differentiable : BOOLEAN, grad : 0..MaxAccum]

PreprocessFns == {"None", "inplace", "resize"}

NoValue == [predictions |-> NoArr, grad |-> NoArr]
NoOutcome == [kind |-> "none", exc |-> "none", value |-> NoValue]

NoCall == [op |-> "none", raw |-> NoArr, label |-> 0, trace |-> <<>>,
           modelArg |-> NoArr, outcome |-> NoOutcome, gradBefore |-> 0,
           gradAfter |-> 0, callerAfter |-> NoArr, prevOutcome |-> NoOutcome,
           classes |-> 0]

\* ------------------------------------------------- external collaborators

\* The user's preprocess_fn applied to the array object a.  out is what it
\* returns, arg is what the object it was handed holds afterwards.
\*   inplace : shifts every value of its argument in place and returns it
\*   resize  : returns a new array one element longer on the last axis
UserFn(f, a) ==
    IF f = "inplace"
    THEN LET y == [a EXCEPT !.data = Shift(@)] IN [out |-> y, arg |-> y]
    ELSE [out |-> [a EXCEPT !.shape = [@ EXCEPT ![Len(@)] = @ + 1]],
          arg |-> a]

\* The wrapped module's forward on tensor x: ok is FALSE when it raises.
\* Its output lives on x's device; it carries a graph unless x is volatile.
Forward(m, x) ==
    LET n == x.shape[1]
        k == ctor_num_classes
        shp == CASE m.kind = "linear" -> <<n, k>>
                 [] m.kind = "conv"   -> <<n, k>>
                 [] m.kind = "wide"   -> <<n, k + 1>>
                 [] m.kind = "flat"   -> <<k>>
                 [] OTHER             -> <<>>
        ok == /\ m.kind # "raises"
              /\ (m.kind = "conv" => Ndim(x) = 4)
    IN [ok |-> ok,
        out |-> IF ok
                THEN [shape |-> shp, data |-> Shift(x.data),
                      dtype |-> "float32", device |-> x.device,
                      mode |-> IF x.mode = "volatile" THEN "volatile"
                               ELSE "graph"]
                ELSE NoArr]

\* nn.CrossEntropyLoss()(predictions, target) with a one-element target:
\* defined for scores of shape (1, c) and a label below c.
LossDefined(p, label) ==
    /\ Ndim(p) = 2
    /\ p.shape[1] = 1
    /\ label < p.shape[2]

\* np.squeeze(a, axis=0): defined when the first axis has length 1.
SqueezeDefined(a) == Ndim(a) >= 1 /\ a.shape[1] = 1
Squeeze(a) == [a EXCEPT !.shape = Tail(@)]

\* ------------------------------------------------- PyTorchModel

\* num_classes(self) reading a count that is off by one
num_classes_off == self_num_classes + 1

\* num_classes(self)
num_classes == self_num_classes

\* the lambda without x.copy(): preprocess_fn works on the caller's array
preprocessing_fn_nocopy(x) ==
    IF preprocess_fn # "None"
    THEN LET r == UserFn(preprocess_fn, x)
         IN [out |-> r.out, arg |-> r.arg]
    ELSE [out |-> x, arg |-> x]

\* the lambda applying preprocess_fn a second time to its own result
preprocessing_fn_twice(x) ==
    IF preprocess_fn # "None"
    THEN LET r == UserFn(preprocess_fn, UserFn(preprocess_fn, x).out)
         IN [out |-> r.out, arg |-> x]
    ELSE [out |-> x, arg |-> x]

\* self.preprocessing_fn, the lambda __init__ stores: out is its result, arg
\* is what the array object x it was called with holds afterwards.
preprocessing_fn(x) ==
    IF preprocess_fn # "None"
    THEN LET copy == x
             r == UserFn(preprocess_fn, copy)
         IN [out |-> r.out, arg |-> x]
    ELSE [out |-> x, arg |-> x]

\* The locals of one call in flight.  caller is the array object the caller
\* passed; err names the exception raised so far ("none": still running).
Start(x, m) ==
    [images |-> x, caller |-> x, model |-> m, trace |-> <<>>,
     modelArg |-> NoArr, predictions |-> NoArr, grad |-> NoArr,
     err |-> "none"]

Raise(s, exc) == [s EXCEPT !.err = exc]

\* assert cond
StepAssert(s, name, cond) ==
    IF s.err # "none" THEN s
    ELSE [s EXCEPT !.trace = Append(@, name),
                   !.err = IF cond THEN "none" ELSE "AssertionError"]

\* images = image[np.newaxis]: a view, one more leading axis of length 1
StepNewaxis(s) ==
    IF s.err # "none" THEN s
    ELSE [s EXCEPT !.images.shape = <<1>> \o @]

\* self.preprocessing_fn(images); images shares its buffer with the caller's
\* array, so what the call leaves in its argument is what the caller sees.
StepPreprocess(s) ==
    IF s.err # "none" THEN s
    ELSE LET r == preprocessing_fn(s.images)
         IN [s EXCEPT !.images = r.out,
                      !.caller.data = r.arg.data,
                      !.trace = Append(@, "preprocess")]

\* torch.from_numpy(...): raises TypeError on a dtype torch has no tensor for
StepFromNumpy(s) ==
    IF s.err # "none" THEN s
    ELSE IF s.images.dtype # "float32" THEN Raise(s, "TypeError")
    ELSE [s EXCEPT !.images.mode = "tensor"]

\* if self.cuda: images = images.cuda()
StepCuda(s) ==
    IF s.err # "none" THEN s
    ELSE IF self_cuda THEN [s EXCEPT !.images.device = "cuda"]
    ELSE s

\* images = Variable(images, volatile=True) / Variable(images, requires_grad=True)
StepVariable(s, mode) ==
    IF s.err # "none" THEN s
    ELSE [s EXCEPT !.images.mode = mode]

\* the model call wrapped in a retry: a failed forward is run once more
StepForward_retry(s) ==
    IF s.err # "none" THEN s
    ELSE LET f == Forward(s.model, s.images)
             t == [s EXCEPT !.trace = Append(@, "forward"),
                            !.modelArg = s.images]
         IN IF f.ok THEN [t EXCEPT !.predictions = f.out]
            ELSE Raise([t EXCEPT !.trace = Append(@, "forward")],
                       "RuntimeError")

\* predictions = self._model(images)
StepForward(s) ==
    IF s.err # "none" THEN s
    ELSE LET f == Forward(s.model, s.images)
             t == [s EXCEPT !.trace = Append(@, "forward"),
                            !.modelArg = s.images]
         IN IF f.ok THEN [t EXCEPT !.predictions = f.out]
            ELSE Raise(t, "RuntimeError")

\* ce = nn.CrossEntropyLoss(); loss = ce(predictions, target)
StepLoss(s, label) ==
    IF s.err # "none" THEN s
    ELSE IF LossDefined(s.predictions, label)
    THEN [s EXCEPT !.trace = Append(@, "loss")]
    ELSE Raise([s EXCEPT !.trace = Append(@, "loss")], "RuntimeError")

\* loss.backward(); grad = images.grad.  The pass needs a graph from the
\* scores back to images; it adds to the module's parameter gradients.
StepBackward(s, label) ==
    IF s.err # "none" THEN s
    ELSE LET t == [s EXCEPT !.trace = Append(@, "backward")]
         IN IF s.predictions.mode = "graph" /\ s.model.differentiable
            THEN [t EXCEPT !.model.grad = @ + 1,
                           !.grad = [s.images EXCEPT
                                        !.data = (@ + label) % (MaxPix + 1),
                                        !.mode = "tensor"]]
            ELSE Raise(t, "RuntimeError")

\* x = x.data; if self.cuda: x = x.cpu(); x = x.numpy()
ToNumpy(x) ==
    LET host == IF self_cuda THEN [x EXCEPT !.device = "cpu"] ELSE x
    IN [ok |-> host.device = "cpu",
        out |-> [host EXCEPT !.mode = "ndarray"]]

StepPredictionsNumpy(s) ==
    IF s.err # "none" THEN s
    ELSE LET r == ToNumpy(s.predictions)
         IN IF r.ok THEN [s EXCEPT !.predictions = r.out]
            ELSE Raise(s, "TypeError")

StepGradNumpy(s) ==
    IF s.err # "none" THEN s
    ELSE LET r == ToNumpy(s.grad)
         IN IF r.ok THEN [s EXCEPT !.grad = r.out]
            ELSE Raise(s, "TypeError")

\* predictions = np.squeeze(predictions, axis=0)
StepSqueezePredictions(s) ==
    IF s.err # "none" THEN s
    ELSE IF SqueezeDefined(s.predictions)
    THEN [s EXCEPT !.predictions = Squeeze(@)]
    ELSE Raise(s, "ValueError")

\* grad = np.squeeze(grad, axis=0)
StepSqueezeGrad(s) ==
    IF s.err # "none" THEN s
    ELSE IF SqueezeDefined(s.grad)
    THEN [s EXCEPT !.grad = Squeeze(@)]
    ELSE Raise(s, "ValueError")

\* the prediction path run the way the gradient path is: a tracked input,
\* a loss and a backward pass
bp_run_model_backward(s) ==
    StepBackward(StepLoss(StepForward(StepVariable(s, "requires_grad")),
                          0), 0)

\* images = Variable(images, volatile=True); predictions = self._model(images)
bp_run_model(s) == StepForward(StepVariable(s, "volatile"))

\* the assertion comparing the batch axis only
bp_shape_batch_only(p, n) == p.shape[1] = n

\* assert predictions.shape == (n, self.num_classes())
bp_shape_ok(p, n) == p.shape = <<n, num_classes>>

\* batch_predictions(self, images), called while the wrapped module is m:
\* the locals when the call ends (err = "none": it returns predictions).
batch_predictions(images, m) ==
    LET n  == images.shape[1]
        s1 == StepCuda(StepFromNumpy(StepPreprocess(Start(images, m))))
        s2 == bp_run_model(s1)
        s3 == StepPredictionsNumpy(s2)
        s4 == StepAssert(s3, "assert_post", Ndim(s3.predictions) = 2)
        s5 == StepAssert(s4, "assert_post", bp_shape_ok(s4.predictions, n))
    IN s5

\* no check of the image's number of axes
pg_image_unchecked(image) == TRUE

\* assert image.ndim == 3
pg_image_ok(image) == Ndim(image) = 3

\* the scores' shape asserted right after the forward pass, before the loss
\* and the backward pass
pg_run_model_checked(s, label) ==
    LET f == StepForward(StepVariable(s, "requires_grad"))
        c == StepAssert(f, "assert_post",
                        f.predictions.shape = <<1, self_num_classes>>)
    IN StepBackward(StepLoss(c, label), label)

\* images = Variable(images, requires_grad=True) ... grad = images.grad
pg_run_model(s, label) ==
    StepBackward(StepLoss(StepForward(StepVariable(s, "requires_grad")),
                          label), label)

\* the assertion comparing the number of axes only
pg_grad_ndim_only(grad, image) == Ndim(grad) = Ndim(image)

\* assert grad.shape == image.shape
pg_grad_ok(grad, image) == grad.shape = image.shape

\* predictions_and_gradient(self, image, label).  The target tensor built
\* from label first (lines 76-80) touches nothing else.
predictions_and_gradient(image, label, m) ==
    LET s1 == StepAssert(Start(image, m), "assert_pre", pg_image_ok(image))
        s2 == StepCuda(StepFromNumpy(StepPreprocess(StepNewaxis(s1))))
        s3 == pg_run_model(s2, label)
        s4 == StepSqueezePredictions(StepPredictionsNumpy(s3))
        s5 == StepAssert(s4, "assert_post", Ndim(s4.predictions) = 1)
        s6 == StepAssert(s5, "assert_post",
                         s5.predictions.shape = <<num_classes>>)
        s7 == StepSqueezeGrad(StepGradNumpy(s6))
        s8 == StepAssert(s7, "assert_post", pg_grad_ok(s7.grad, image))
    IN s8

\* What the caller gets: the value returned, or the exception propagated.
Outcome(s, value) ==
    IF s.err = "none"
    THEN [kind |-> "returned", exc |-> "none", value |-> value]
    ELSE [kind |-> "raised", exc |-> s.err, value |-> NoValue]

\* ---------------------------------------------------------------- actions

\* PyTorchModel(model, bounds, num_classes, channel_axis, cuda, preprocess_fn)
Init ==
    /\ ctor_num_classes \in 1..MaxClasses
    /\ self_num_classes = ctor_num_classes
    /\ self_model \in {m \in Models : m.grad = 0}
    /\ self_cuda \in BOOLEAN
    /\ preprocess_fn \in PreprocessFns
    /\ callerArr \in Arrays
    /\ last = NoCall

\* adapter.batch_predictions(callerArr)
BatchPredictions ==
    LET s == batch_predictions(callerArr, self_model)
    IN /\ last' = [op |-> "batch_predictions", raw |-> callerArr,
                   label |-> 0, trace |-> s.trace, modelArg |-> s.modelArg,
                   outcome |-> Outcome(s, [predictions |-> s.predictions,
                                           grad |-> NoArr]),
                   gradBefore |-> self_model.grad,
                   gradAfter |-> s.model.grad,
                   callerAfter |-> s.caller,
                   prevOutcome |-> IF last.op = "batch_predictions"
                                   THEN last.outcome ELSE NoOutcome,
                   classes |-> 0]
       /\ callerArr' = s.caller
       /\ self_model' = s.model
       /\ UNCHANGED <<ctor_num_classes, self_num_classes, self_cuda,
                      preprocess_fn>>

\* adapter.predictions_and_gradient(callerArr, label)
PredictionsAndGradient ==
    \E label \in 0..ctor_num_classes :
        LET s == predictions_and_gradient(callerArr, label, self_model)
        IN /\ self_model.grad < MaxAccum
           /\ last' = [op |-> "predictions_and_gradient", raw |-> callerArr,
                       label |-> label, trace |-> s.trace,
                       modelArg |-> s.modelArg,
                       outcome |-> Outcome(s, [predictions |-> s.predictions,
                                               grad |-> s.grad]),
                       gradBefore |-> self_model.grad,
                       gradAfter |-> s.model.grad,
                       callerAfter |-> s.caller,
                       prevOutcome |-> NoOutcome,
                       classes |-> 0]
           /\ callerArr' = s.caller
           /\ self_model' = s.model
           /\ UNCHANGED <<ctor_num_classes, self_num_classes, self_cuda,
                          preprocess_fn>>

\* adapter.num_classes()
NumClasses ==
    /\ last' = [NoCall EXCEPT !.op = "num_classes", !.classes = num_classes,
                              !.gradBefore = self_model.grad,
                              !.gradAfter = self_model.grad]
    /\ UNCHANGED <<ctor_num_classes, self_num_classes, self_model, self_cuda,
                   preprocess_fn, callerArr>>

\* The caller writes other pixel values into its array (an attack step).
Perturb ==
    \E d \in PixVals :
        /\ callerArr' = [callerArr EXCEPT !.data = d]
        /\ last' = NoCall
        /\ UNCHANGED <<ctor_num_classes, self_num_classes, self_model,
                       self_cuda, preprocess_fn>>

\* The caller changes the module it owns (the adapter holds a reference).
ChangeModel ==
    \E k \in ModelKinds :
        /\ self_model' = [self_model EXCEPT !.kind = k]
        /\ last' = NoCall
        /\ UNCHANGED <<ctor_num_classes, self_num_classes, self_cuda,
                       preprocess_fn, callerArr>>

\* The caller resets the module's parameter gradients (module.zero_grad()).
ZeroGrad ==
    /\ self_model.grad > 0
    /\ self_model' = [self_model EXCEPT !.grad = 0]
    /\ last' = NoCall
    /\ UNCHANGED <<ctor_num_classes, self_num_classes, self_cuda,
                   preprocess_fn, callerArr>>

Next ==
    \/ BatchPredictions
    \/ PredictionsAndGradient
    \/ NumClasses
    \/ Perturb
    \/ ChangeModel
    \/ ZeroGrad

Spec == Init /\ [][Next]_vars

TypeOK ==
    /\ ctor_num_classes \in 1..MaxClasses
    /\ self_num_classes \in Int
    /\ self_model \in Models
    /\ self_cuda \in BOOLEAN
    /\ preprocess_fn \in PreprocessFns
    /\ callerArr \in Arrays
    /\ last.op \in {"none", "batch_predictions", "predictions_and_gradient",
                    "num_classes"}

\* ---------------------------------------------------------------- claims

HasEvent(tr, e) == \E i \in DOMAIN tr : tr[i] = e
Count(tr, e) == Cardinality({i \in DOMAIN tr : tr[i] = e})
\* every e1 in tr comes before every e2 in tr
Before(tr, e1, e2) ==
    \A i, j \in DOMAIN tr : (tr[i] = e1 /\ tr[j] = e2) => i < j

IsBP == last.op = "batch_predictions"
IsPG == last.op = "predictions_and_gradient"
Returned == last.outcome.kind = "returned"
RaisedExc(e) == last.outcome.kind = "raised" /\ last.outcome.exc = e
Reached == HasEvent(last.trace, "forward")

\* The raw input batch of the last call: the array itself, or the image
\* wrapped into a batch of one.
RawBatch ==
    IF IsPG THEN [last.raw EXCEPT !.shape = <<1>> \o @] ELSE last.raw

\* What the wrapped module answered in the last call (it has not changed
\* since: every step of the caller clears last).
Scores == Forward(self_model, last.modelArg)

\* C1 as stated: on a batch of n >= 1 images batch_predictions either
\* returns an array of shape (n, num_classes()) or fails with an assertion
\* error.
C1_Original ==
    (IsBP /\ Ndim(last.raw) = 4 /\ last.raw.dtype = "float32") =>
        \/ Returned /\ last.outcome.value.predictions.shape
                          = <<last.raw.shape[1], ctor_num_classes>>
        \/ RaisedExc("AssertionError")

\* C1 amended: batch_predictions returns a 2-dimensional array of shape
\* exactly (n, num_classes()) or it fails; it fails with an assertion error
\* exactly when the wrapped model returned scores of another shape, and
\* otherwise with the runtime error of the tensor library or the wrapped
\* model, which never reaches the assertions.  When the wrapped model
\* returns scores of shape (n, num_classes) the call returns those scores.
C1_ShapeOrFailure ==
    IsBP =>
        LET n == last.raw.shape[1]
            good == <<n, ctor_num_classes>>
        IN /\ Returned =>
                /\ Ndim(last.outcome.value.predictions) = 2
                /\ last.outcome.value.predictions.shape = good
           /\ ~Returned =>
                /\ last.outcome.exc \in {"AssertionError", "RuntimeError",
                                         "TypeError"}
                /\ last.outcome.value = NoValue
           /\ RaisedExc("AssertionError") <=>
                (Reached /\ Scores.ok /\ Scores.out.shape # good)
           /\ (Reached /\ Scores.ok /\ Scores.out.shape = good) =>
                /\ Returned
                /\ Content(last.outcome.value.predictions)
                     = Content(Scores.out)

C1_Witness ==
    /\ IsBP /\ Returned
    /\ last.raw.shape[1] = 2
    /\ last.outcome.value.predictions.shape = <<2, ctor_num_classes>>

\* The case C2 is about: a 3-dimensional image, a label in
\* [0, num_classes), and a wrapped model that returned valid scores.
C2_Case ==
    /\ IsPG
    /\ Ndim(last.raw) = 3
    /\ last.label < ctor_num_classes
    /\ Reached /\ Scores.ok
    /\ Scores.out.shape = <<1, ctor_num_classes>>

C2_ShapesRight ==
    /\ Returned
    /\ last.outcome.value.predictions.shape = <<ctor_num_classes>>
    /\ last.outcome.value.grad.shape = last.raw.shape

\* C2 as stated: in that case predictions_and_gradient returns predictions
\* of shape (num_classes(),) and a gradient of the image's shape; any other
\* outcome is an assertion failure.
C2_Original ==
    C2_Case => (C2_ShapesRight \/ RaisedExc("AssertionError"))

\* C2 amended: in that case predictions_and_gradient returns predictions of
\* shape (num_classes(),) and a gradient of the image's shape; any other
\* outcome is a failure and never a returned value: an assertion failure
\* when the gradient's shape (that of the preprocessed batch without its
\* batch axis) differs from the image's, or the runtime error of the
\* backward pass, propagated, when the model is not differentiable.
C2_ShapesOrFailure ==
    C2_Case =>
        /\ Returned => C2_ShapesRight
        /\ ~Returned =>
             /\ last.outcome.value = NoValue
             /\ \/ /\ RaisedExc("AssertionError")
                   /\ self_model.differentiable
                   /\ Tail(last.modelArg.shape) # last.raw.shape
                \/ /\ RaisedExc("RuntimeError")
                   /\ ~self_model.differentiable
        /\ (self_model.differentiable
              /\ Tail(last.modelArg.shape) = last.raw.shape) => Returned

C2_Witness ==
    /\ C2_Case /\ C2_ShapesRight
    /\ last.raw.shape[1] = 2

\* C3: after any sequence of calls, failed ones included, num_classes()
\* returns the value passed to the constructor.
C3_NumClassesFixed ==
    /\ num_classes = ctor_num_classes
    /\ last.op = "num_classes" => last.classes = ctor_num_classes

C3_Witness ==
    /\ last.op = "num_classes"
    /\ last.classes = ctor_num_classes
    /\ self_model.grad = MaxAccum

\* C4: the array handed to the wrapped model is preprocess_fn applied once
\* to the raw input batch when one was supplied, and the raw input batch
\* when none was; for predictions_and_gradient the raw input batch is the
\* image wrapped into a batch of one.
C4_PreprocessedOnce ==
    ((IsBP \/ IsPG) /\ Reached) =>
        /\ Content(last.modelArg) =
              Content(IF preprocess_fn = "None" THEN RawBatch
                      ELSE UserFn(preprocess_fn, RawBatch).out)
        /\ Count(last.trace, "preprocess") = 1
        /\ Before(last.trace, "preprocess", "forward")

C4_Witness ==
    /\ IsPG /\ Reached
    /\ preprocess_fn = "inplace"
    /\ last.modelArg.data = Shift(last.raw.data)
    /\ last.modelArg.shape = <<1>> \o last.raw.shape

\* C5: a second batch_predictions call on the same input, with nothing
\* changed on the wrapped model in between, gives the outcome of the first:
\* the first call leaves the input array and the model as they were.
C5_Idempotent ==
    IsBP =>
        /\ last.callerAfter = last.raw
        /\ callerArr = last.raw
        /\ last.gradAfter = last.gradBefore
        /\ last.prevOutcome # NoOutcome => last.outcome = last.prevOutcome

C5_Witness ==
    /\ IsBP /\ Returned
    /\ last.prevOutcome.kind = "returned"
    /\ preprocess_fn = "inplace"

\* C6 as stated: neither operation rejects an input before the wrapped
\* model is called; an assertion failure happens only after the model has
\* been invoked.
C6_Original ==
    ((IsBP \/ IsPG) /\ RaisedExc("AssertionError")) => Reached

\* C6 amended: batch_predictions checks nothing before the model call, and
\* predictions_and_gradient checks only that the image is 3-dimensional (an
\* assertion failure before preprocessing and before the model call); every
\* other failure surfaces as a runtime error of the tensor library or the
\* model, or as a postcondition assertion failure after the model has been
\* invoked.
C6_OnlyNdimChecked ==
    /\ IsBP =>
         /\ ~HasEvent(last.trace, "assert_pre")
         /\ RaisedExc("AssertionError") => Reached
         /\ last.raw.dtype = "float32" => Reached
    /\ IsPG =>
         /\ Ndim(last.raw) # 3 <=> (RaisedExc("AssertionError") /\ ~Reached)
         /\ Ndim(last.raw) # 3 => last.trace = <<"assert_pre">>
         /\ (Ndim(last.raw) = 3 /\ last.raw.dtype = "float32") => Reached
         /\ (Ndim(last.raw) = 3 /\ ~Reached) => RaisedExc("TypeError")

C6_Witness ==
    /\ IsPG
    /\ Ndim(last.raw) = 2
    /\ RaisedExc("AssertionError")
    /\ ~Reached

\* C7: batch_predictions runs the wrapped model with gradient tracking
\* disabled and never runs a backward pass; the model's parameter gradient
\* accumulators are after the call what they were before it.
C7_NoGradientInBP ==
    /\ IsBP =>
         /\ last.gradAfter = last.gradBefore
         /\ self_model.grad = last.gradBefore
         /\ ~HasEvent(last.trace, "backward")
         /\ ~HasEvent(last.trace, "loss")
         /\ Reached => last.modelArg.mode = "volatile"
    /\ (last.op # "none" /\ self_model.grad # last.gradBefore) => IsPG

C7_Witness ==
    /\ IsBP /\ Returned /\ Reached
    /\ last.gradBefore = MaxAccum
    /\ self_model.grad = MaxAccum

\* C8 as stated: every predictions_and_gradient call (here: with a label in
\* [0, num_classes)) that reaches the wrapped model runs exactly one forward
\* and exactly one backward pass.
C8_Original ==
    (IsPG /\ Reached /\ last.label < ctor_num_classes) =>
        /\ Count(last.trace, "forward") = 1
        /\ Count(last.trace, "backward") = 1

\* C8 amended: every predictions_and_gradient call that reaches the wrapped
\* model runs exactly one forward pass and at most one backward pass; the
\* backward pass runs after the forward pass, exactly when the forward pass
\* and the loss computation succeeded (so once in every call that returns).
\* Every batch_predictions call that reaches the model runs exactly one
\* forward pass.  No failure is retried or swallowed: a call whose forward
\* or backward pass fails raises that error and returns nothing.
C8_OnePassEach ==
    /\ (IsPG /\ Reached) =>
         /\ Count(last.trace, "forward") = 1
         /\ Count(last.trace, "backward") <= 1
         /\ HasEvent(last.trace, "backward") <=>
              (Scores.ok /\ LossDefined(Scores.out, last.label))
         /\ Before(last.trace, "forward", "backward")
         /\ Returned => Count(last.trace, "backward") = 1
         /\ (HasEvent(last.trace, "backward") /\ ~self_model.differentiable)
              => RaisedExc("RuntimeError")
    /\ (IsBP /\ Reached) => Count(last.trace, "forward") = 1
    /\ ((IsBP \/ IsPG) /\ Reached /\ ~Scores.ok) =>
         /\ RaisedExc("RuntimeError")
         /\ last.outcome.value = NoValue
         /\ last.trace[Len(last.trace)] = "forward"

C8_Witness ==
    /\ IsPG /\ Reached
    /\ ~Scores.ok
    /\ RaisedExc("RuntimeError")
    /\ Count(last.trace, "backward") = 0

\* C9: with a preprocessing function supplied, the array passed to
\* batch_predictions or predictions_and_gradient is unchanged after the
\* call, even when that function modifies its argument in place.
C9_InputNotMutated ==
    ((IsBP \/ IsPG) /\ preprocess_fn # "None") =>
        /\ last.callerAfter = last.raw
        /\ callerArr = last.raw

C9_Witness ==
    /\ IsPG
    /\ preprocess_fn = "inplace"
    /\ HasEvent(last.trace, "preprocess")
    /\ last.modelArg.data # last.raw.data
    /\ callerArr = last.raw

\* C10: in predictions_and_gradient the postcondition assertions run only
\* after the forward and backward passes have completed; a call that fails
\* on one of them has already added to the model's gradient accumulators,
\* which are not rolled back, and returns nothing.
C10_AssertAfterBackward ==
    IsPG =>
        /\ Before(last.trace, "forward", "assert_post")
        /\ Before(last.trace, "backward", "assert_post")
        /\ HasEvent(last.trace, "assert_post") =>
             /\ HasEvent(last.trace, "backward")
             /\ last.gradAfter = last.gradBefore + 1
        /\ (RaisedExc("AssertionError") /\ Reached) =>
             /\ HasEvent(last.trace, "assert_post")
             /\ self_model.grad = last.gradBefore + 1
             /\ last.outcome.value = NoValue

C10_Witness ==
    /\ IsPG
    /\ RaisedExc("AssertionError")
    /\ HasEvent(last.trace, "assert_post")
    /\ self_model.grad = last.gradBefore + 1

====
